---- MODULE Spec2Model ----
(***************************************************************************)
(* Call graph of refact-agent/engine/src/codegraph: the two graph          *)
(* representations (CodeGraph, PetGraphCodeGraph), the storage codec       *)
(* (PetGraphStorage) and the two-pass builder (CodeParser).                *)
(*                                                                         *)
(* Spec      : the graph API driven directly (add_function,                *)
(*             add_call_relation, update_stats, save + load); the same    *)
(*             call is applied to one CodeGraph and one PetGraphCodeGraph. *)
(* SpecBuild : CodeParser::build_code_graph and build_petgraph_code_graph  *)
(*             run symbol by symbol on the same directories, each on its   *)
(*             own parser; the two parsers hold the same file_asts.        *)
(***************************************************************************)
EXTENDS Integers, Sequences, FiniteSets, TLC

(* ---- bounds ---- *)
MaxId == 2
MaxFuncs == 2
MaxEdges == 2
NumNames == 2
NumFiles == 2
NumLangs == 2
MaxLine == 1
MaxBuilds == 2
MaxSyms == 3
MaxNodes == 3
MaxCalls == 3
MaxDepth == 4
MaxArgs == 2
MaxTemplates == 1

Ids == 1..MaxId
Names == 1..NumNames
Files == 1..NumFiles
Langs == 1..NumLangs

(* The language tag of a record follows from its file (its extension). *)
LangOf(file) == ((file - 1) % NumLangs) + 1

(* FunctionInfo, restricted to the fields the graph code reads. *)
FunctionInfo ==
  {[id |-> i, name |-> n, file_path |-> f, language |-> LangOf(f)] :
     i \in Ids, n \in Names, f \in Files}

(* CallRelation, restricted to the fields the graph code reads. *)
CallRelation ==
  [caller_id : Ids, callee_id : Ids, line_number : 1..MaxLine, is_resolved : BOOLEAN]

(* ---- HashMap helpers ---- *)
EmptyMap == << >>

MapInsert(m, k, v) ==
  [x \in (DOMAIN m) \cup {k} |-> IF x = k THEN v ELSE m[x]]

(* Mutant: the new id is put in front of the list. *)
EntryPush_front(m, k, v) ==
  MapInsert(m, k, IF k \in DOMAIN m THEN <<v>> \o m[k] ELSE <<v>>)

(* map.entry(k).or_default().push(v) *)
EntryPush(m, k, v) ==
  MapInsert(m, k, IF k \in DOMAIN m THEN Append(m[k], v) ELSE <<v>>)

(* *map.entry(k).or_default() += 1 *)
EntryIncr(m, k) ==
  MapInsert(m, k, IF k \in DOMAIN m THEN m[k] + 1 ELSE 1)

RECURSIVE SumOver(_, _)
SumOver(m, S) ==
  IF S = {} THEN 0
  ELSE LET k == CHOOSE x \in S : TRUE IN m[k] + SumOver(m, S \ {k})

SumValues(m) == SumOver(m, DOMAIN m)

Range(s) == {s[i] : i \in DOMAIN s}

(* Number of occurrences of v in the lists of index m. *)
Occurrences(m, v) ==
  SumValues([k \in DOMAIN m |-> Cardinality({i \in DOMAIN m[k] : m[k][i] = v})])

(* ---- CodeGraphStats ---- *)
StatsDefault ==
  [total_functions |-> 0, total_files |-> 0, total_languages |-> 0,
   resolved_calls |-> 0, unresolved_calls |-> 0, languages |-> EmptyMap]

CountCall(stats, is_resolved) ==
  IF is_resolved
  THEN [stats EXCEPT !.resolved_calls = @ + 1]
  ELSE [stats EXCEPT !.unresolved_calls = @ + 1]

(* ---- representation A: CodeGraph ---- *)
CodeGraphNew ==
  [functions |-> EmptyMap, function_names |-> EmptyMap, file_functions |-> EmptyMap,
   call_relations |-> << >>, stats |-> StatsDefault]

add_function(g, function) ==
  [g EXCEPT
     !.functions = MapInsert(@, function.id, function),
     !.function_names = EntryPush(@, function.name, function.id),
     !.file_functions = EntryPush(@, function.file_path, function.id),
     !.stats = [@ EXCEPT !.total_functions = @ + 1,
                         !.languages = EntryIncr(@, function.language)]]

(* Mutant: only resolved calls are counted. *)
add_call_relation_uncounted(g, relation) ==
  [g EXCEPT
     !.call_relations = Append(@, relation),
     !.stats = IF relation.is_resolved THEN CountCall(@, TRUE) ELSE @]

(* Mutant: an edge whose callee is not a stored function is dropped. *)
add_call_relation_strict(g, relation) ==
  IF relation.callee_id \in DOMAIN g.functions
  THEN [g EXCEPT
          !.call_relations = Append(@, relation),
          !.stats = CountCall(@, relation.is_resolved)]
  ELSE g

add_call_relation(g, relation) ==
  [g EXCEPT
     !.call_relations = Append(@, relation),
     !.stats = CountCall(@, relation.is_resolved)]

SelectIds(ids, m) == SelectSeq(ids, LAMBDA id : id \in DOMAIN m)

find_functions_by_name(g, name) ==
  IF name \in DOMAIN g.function_names
  THEN LET ids == SelectIds(g.function_names[name], g.functions)
       IN [i \in DOMAIN ids |-> g.functions[ids[i]]]
  ELSE << >>

get_callers(g, function_id) ==
  SelectSeq(g.call_relations, LAMBDA rel : rel.callee_id = function_id)

get_callees(g, function_id) ==
  SelectSeq(g.call_relations, LAMBDA rel : rel.caller_id = function_id)

(* Mutant: only total_files is refreshed. *)
update_stats_filesonly(g) ==
  [g EXCEPT !.stats = [@ EXCEPT
     !.total_files = Cardinality(DOMAIN g.file_functions)]]

update_stats(g) ==
  [g EXCEPT !.stats = [@ EXCEPT
     !.total_files = Cardinality(DOMAIN g.file_functions),
     !.total_languages = Cardinality(DOMAIN g.stats.languages)]]

(* ---- representation B: PetGraphCodeGraph ---- *)
(* graph: nodes are node weights in NodeIndex order (index i here is       *)
(* NodeIndex i-1), edges are (source, target, weight) in EdgeIndex order.  *)
PetGraphNew ==
  [nodes |-> << >>, edges |-> << >>,
   function_to_node |-> EmptyMap, node_to_function |-> EmptyMap,
   function_names |-> EmptyMap, file_functions |-> EmptyMap,
   stats |-> StatsDefault]

pet_add_function(g, function) ==
  LET node_index == Len(g.nodes) + 1 IN
  [g EXCEPT
     !.nodes = Append(@, function),
     !.function_to_node = MapInsert(@, function.id, node_index),
     !.node_to_function = MapInsert(@, node_index, function.id),
     !.function_names = EntryPush(@, function.name, function.id),
     !.file_functions = EntryPush(@, function.file_path, function.id),
     !.stats = [@ EXCEPT !.total_functions = @ + 1,
                         !.languages = EntryIncr(@, function.language)]]

(* Mutant: the counters are updated before the endpoints are looked up. *)
pet_add_call_relation_countfirst(g, relation) ==
  LET counted == [g EXCEPT !.stats = CountCall(@, relation.is_resolved)] IN
  IF relation.caller_id \notin DOMAIN g.function_to_node
       \/ relation.callee_id \notin DOMAIN g.function_to_node
  THEN [ok |-> FALSE, graph |-> counted]
  ELSE [ok |-> TRUE,
        graph |-> [counted EXCEPT
          !.edges = Append(@, [source |-> g.function_to_node[relation.caller_id],
                               target |-> g.function_to_node[relation.callee_id],
                               weight |-> relation])]]

(* Mutant: the edge is added from the callee's node to the caller's node. *)
pet_add_call_relation_swapped(g, relation) ==
  IF relation.caller_id \notin DOMAIN g.function_to_node
       \/ relation.callee_id \notin DOMAIN g.function_to_node
  THEN [ok |-> FALSE, graph |-> g]
  ELSE [ok |-> TRUE,
        graph |-> [g EXCEPT
          !.edges = Append(@, [source |-> g.function_to_node[relation.callee_id],
                               target |-> g.function_to_node[relation.caller_id],
                               weight |-> relation]),
          !.stats = CountCall(@, relation.is_resolved)]]

(* Result<(), String> together with the graph after the call. *)
pet_add_call_relation(g, relation) ==
  IF relation.caller_id \notin DOMAIN g.function_to_node
       \/ relation.callee_id \notin DOMAIN g.function_to_node
  THEN [ok |-> FALSE, graph |-> g]
  ELSE [ok |-> TRUE,
        graph |-> [g EXCEPT
          !.edges = Append(@, [source |-> g.function_to_node[relation.caller_id],
                               target |-> g.function_to_node[relation.callee_id],
                               weight |-> relation]),
          !.stats = CountCall(@, relation.is_resolved)]]

get_all_functions(g) == g.nodes

get_all_call_relations(g) == [i \in DOMAIN g.edges |-> g.edges[i].weight]

pet_update_stats(g) ==
  [g EXCEPT !.stats = [@ EXCEPT
     !.total_files = Cardinality(DOMAIN g.file_functions),
     !.total_languages = Cardinality(DOMAIN g.stats.languages)]]

(* ---- codec: PetGraphStorage ---- *)
from_petgraph(code_graph) ==
  [functions |-> get_all_functions(code_graph),
   call_relations |-> get_all_call_relations(code_graph),
   function_names |-> code_graph.function_names,
   file_functions |-> code_graph.file_functions,
   stats |-> code_graph.stats]

RECURSIVE AddAllFunctions(_, _)
AddAllFunctions(g, fs) ==
  IF fs = << >> THEN g
  ELSE AddAllFunctions(pet_add_function(g, Head(fs)), Tail(fs))

(* A failed insertion is only reported (eprintln) and the loop goes on. *)
RECURSIVE AddAllRelations(_, _)
AddAllRelations(g, rs) ==
  IF rs = << >> THEN g
  ELSE AddAllRelations(pet_add_call_relation(g, Head(rs)).graph, Tail(rs))

(* Mutant: the saved stats are not restored after the graph is rebuilt. *)
to_petgraph_norestore(storage) ==
  LET code_graph ==
        AddAllRelations(AddAllFunctions(PetGraphNew, storage.functions),
                        storage.call_relations)
  IN [code_graph EXCEPT
        !.function_names = storage.function_names,
        !.file_functions = storage.file_functions]

to_petgraph(storage) ==
  LET code_graph ==
        AddAllRelations(AddAllFunctions(PetGraphNew, storage.functions),
                        storage.call_relations)
  IN [code_graph EXCEPT
        !.function_names = storage.function_names,
        !.file_functions = storage.file_functions,
        !.stats = storage.stats]

(* ---- PetGraphStorageManager: load ---- *)
(* What a load is given: a path with no file behind it, content that is    *)
(* not an encoding of a PetGraphStorage, or the encoding of a storage.     *)
Sources == {"file", "json", "binary"}

Contents == {"missing", "malformed", "encoded"}

(* Mutant: content that does not decode is loaded as an empty storage. *)
load_lenient(source, content, storage) ==
  IF source # "json" /\ content = "missing"
  THEN [ok |-> FALSE, message |-> "Failed to read file"]
  ELSE IF content = "malformed"
       THEN [ok |-> TRUE, graph |-> PetGraphNew]
       ELSE [ok |-> TRUE, graph |-> to_petgraph(storage)]

(* load_from_file / load_from_json / load_from_binary: Result<PetCodeGraph, String>. *)
load(source, content, storage) ==
  IF source # "json" /\ content = "missing"
  THEN [ok |-> FALSE, message |-> "Failed to read file"]
  ELSE IF content = "malformed"
       THEN [ok |-> FALSE, message |-> "Failed to deserialize"]
       ELSE [ok |-> TRUE, graph |-> to_petgraph(storage)]

(* ---- exports ---- *)
(* A document is its fixed frame with the node entries and the edge        *)
(* entries written into it; node and edge ids are petgraph indices.        *)
NodeEntries(g) ==
  [i \in DOMAIN g.nodes |->
     [id |-> i - 1, name |-> g.nodes[i].name, file |-> g.nodes[i].file_path,
      language |-> g.nodes[i].language]]

EdgeEntries(g) ==
  [i \in DOMAIN g.edges |->
     [id |-> i - 1, source |-> g.edges[i].source - 1, target |-> g.edges[i].target - 1,
      line_number |-> g.edges[i].weight.line_number,
      is_resolved |-> g.edges[i].weight.is_resolved]]

(* writable: whether fs::write to the given path succeeds. *)
export_to_graphml(code_graph, writable) ==
  IF writable
  THEN [ok |-> TRUE,
        document |-> [frame |-> "graphml", nodes |-> NodeEntries(code_graph),
                      edges |-> EdgeEntries(code_graph)]]
  ELSE [ok |-> FALSE, message |-> "Failed to write GraphML file"]

(* Mutant: the result of fs::write is not looked at. *)
export_to_gexf_unchecked(code_graph, writable) ==
  [ok |-> TRUE,
   document |-> [frame |-> "gexf", nodes |-> NodeEntries(code_graph),
                 edges |-> EdgeEntries(code_graph)]]

export_to_gexf(code_graph, writable) ==
  IF writable
  THEN [ok |-> TRUE,
        document |-> [frame |-> "gexf", nodes |-> NodeEntries(code_graph),
                      edges |-> EdgeEntries(code_graph)]]
  ELSE [ok |-> FALSE, message |-> "Failed to write GEXF file"]

(* The JSON text and the binary bytes are encodings of the storage. *)
save_to_json(code_graph) ==
  [ok |-> TRUE, document |-> from_petgraph(code_graph)]

save_to_file(code_graph, writable) ==
  IF writable
  THEN [ok |-> TRUE, document |-> from_petgraph(code_graph)]
  ELSE [ok |-> FALSE, message |-> "Failed to write file"]

save_to_binary(code_graph, writable) ==
  IF writable
  THEN [ok |-> TRUE, document |-> from_petgraph(code_graph)]
  ELSE [ok |-> FALSE, message |-> "Failed to write file"]

(* Representation A; values is the order of functions.values(). *)
RelationEntries(g) ==
  [i \in DOMAIN g.call_relations |->
     [source |-> g.call_relations[i].caller_id, target |-> g.call_relations[i].callee_id,
      is_resolved |-> g.call_relations[i].is_resolved]]

FunctionEntries(values) ==
  [i \in DOMAIN values |->
     [id |-> values[i].id, name |-> values[i].name, file |-> values[i].file_path]]

to_mermaid(g, values) ==
  [frame |-> "graph TD", nodes |-> FunctionEntries(values), edges |-> RelationEntries(g)]

to_dot(g, values) ==
  [frame |-> "digraph CodeGraph", nodes |-> FunctionEntries(values), edges |-> RelationEntries(g)]

to_json(g) == [ok |-> TRUE, document |-> g]

(* ---- builder: CodeParser ---- *)
(* A symbol of a parsed file: a function declaration or a call site.  Its  *)
(* guid is fixed by its place (file, index); its row is its index.         *)
Symbols == [type : {"FunctionDeclaration", "FunctionCall"}, name : Names]

RECURSIVE SeqsUpTo(_, _)
SeqsUpTo(S, n) ==
  IF n = 0 THEN {<< >>}
  ELSE LET shorter == SeqsUpTo(S, n - 1)
       IN shorter \cup {Append(s, x) : s \in {t \in shorter : Len(t) = n - 1}, x \in S}

Asts == SeqsUpTo(Symbols, MaxSyms)

TotalSymbols(files) == SumValues([f \in DOMAIN files |-> Len(files[f])])

Guid(file, idx) == (file - 1) * MaxSyms + idx

Orders(S) ==
  {s \in [1..Cardinality(S) -> S] : \A i, j \in 1..Cardinality(S) : s[i] = s[j] => i = j}

(* The symbols of all parsed files in HashMap iteration order. *)
RECURSIVE Flatten(_, _)
Flatten(asts, file_order) ==
  IF file_order = << >> THEN << >>
  ELSE LET f == Head(file_order) IN
       [i \in DOMAIN asts[f] |-> [file |-> f, idx |-> i, symbol |-> asts[f][i]]]
         \o Flatten(asts, Tail(file_order))

(* parse_directory: every file found is parsed; a failing one is skipped. *)
parse_directory(asts, files, found, parsed) ==
  [f \in (DOMAIN asts) \cup parsed |-> IF f \in parsed THEN files[f] ELSE asts[f]]

_create_function_info(item) ==
  [id |-> Guid(item.file, item.idx), name |-> item.symbol.name,
   file_path |-> item.file, language |-> LangOf(item.file)]

get_function_by_id(g, function_id) ==
  IF function_id \in DOMAIN g.function_to_node
  THEN <<g.nodes[g.function_to_node[function_id]]>>
  ELSE << >>

pet_find_functions_by_name(g, name) ==
  IF name \in DOMAIN g.function_names
  THEN LET ids == SelectIds(g.function_names[name], g.function_to_node)
       IN [i \in DOMAIN ids |-> g.nodes[g.function_to_node[ids[i]]]]
  ELSE << >>

(* Mutant: a declaration is inserted only if its name is not indexed yet. *)
pass1_symbol_byname(g, item) ==
  IF item.symbol.type = "FunctionDeclaration"
       /\ item.symbol.name \notin DOMAIN g.function_names
  THEN add_function(g, _create_function_info(item))
  ELSE g

(* Pass 1, one symbol: a declaration is inserted, anything else is skipped. *)
pass1_symbol(g, item) ==
  IF item.symbol.type = "FunctionDeclaration"
  THEN add_function(g, _create_function_info(item))
  ELSE g

pet_pass1_symbol(g, item) ==
  IF item.symbol.type = "FunctionDeclaration"
  THEN pet_add_function(g, _create_function_info(item))
  ELSE g

(* Pass 2: the stack of enclosing functions after a symbol. *)
push_enclosing(stack, found_functions, item) ==
  IF item.symbol.type = "FunctionDeclaration" /\ found_functions # << >>
  THEN Append(stack, found_functions[1].id)
  ELSE stack

(* Mutant: only the first candidate of a call site gets an edge. *)
relations_to_add_first(caller_info, callee_functions, item) ==
  IF caller_info = << >> \/ callee_functions = << >> THEN << >>
  ELSE <<[caller_id |-> caller_info[1].id,
          callee_id |-> callee_functions[1].id,
          caller_name |-> caller_info[1].name,
          callee_name |-> callee_functions[1].name,
          caller_file |-> caller_info[1].file_path,
          callee_file |-> callee_functions[1].file_path,
          line_number |-> item.idx,
          is_resolved |-> TRUE]>>

(* Pass 2: the relations emitted for a call site. *)
relations_to_add(caller_info, callee_functions, item) ==
  IF caller_info = << >> THEN << >>
  ELSE [i \in DOMAIN callee_functions |->
          [caller_id |-> caller_info[1].id,
           callee_id |-> callee_functions[i].id,
           caller_name |-> caller_info[1].name,
           callee_name |-> callee_functions[i].name,
           caller_file |-> caller_info[1].file_path,
           callee_file |-> callee_functions[i].file_path,
           line_number |-> item.idx,
           is_resolved |-> TRUE]]

RECURSIVE AddRelationsA(_, _)
AddRelationsA(g, rs) ==
  IF rs = << >> THEN g
  ELSE AddRelationsA(add_call_relation(g, Head(rs)), Tail(rs))

_analyze_call_relations(g, stack, item) ==
  IF item.symbol.type = "FunctionCall" /\ stack # << >>
  THEN LET caller_id == stack[Len(stack)]
           callee_functions == find_functions_by_name(g, item.symbol.name)
           caller_info == IF caller_id \in DOMAIN g.functions
                          THEN <<g.functions[caller_id]>> ELSE << >>
       IN AddRelationsA(g, relations_to_add(caller_info, callee_functions, item))
  ELSE g

_analyze_petgraph_call_relations(g, stack, item) ==
  IF item.symbol.type = "FunctionCall" /\ stack # << >>
  THEN LET caller_id == stack[Len(stack)]
           callee_functions == pet_find_functions_by_name(g, item.symbol.name)
           caller_info == get_function_by_id(g, caller_id)
       IN AddAllRelations(g, relations_to_add(caller_info, callee_functions, item))
  ELSE g

(* ---- function signatures ---- *)
(* A String the code inspects character by character is a sequence of      *)
(* one-character strings; Concat joins it into the String it denotes.      *)
RECURSIVE Concat(_)
Concat(chars) == IF chars = << >> THEN "" ELSE Head(chars) \o Concat(Tail(chars))

(* Vec<String>::join(separator). *)
RECURSIVE Join(_, _)
Join(strings, separator) ==
  IF strings = << >> THEN ""
  ELSE IF Len(strings) = 1 THEN strings[1]
  ELSE strings[1] \o separator \o Join(Tail(strings), separator)

(* char::is_alphanumeric over the characters the declarations use. *)
Alphanumeric ==
  {"a", "b", "c", "d", "e", "f", "g", "h", "i", "j", "k", "l", "m", "n", "o", "p", "q",
   "r", "s", "t", "u", "v", "w", "x", "y", "z", "0", "1", "2", "3", "4", "5", "6", "7",
   "8", "9"}

(* str::replace of one character by a string. *)
Replace(chars, from, to) == [i \in DOMAIN chars |-> IF chars[i] = from THEN to ELSE chars[i]]

_escape_identifier(identifier) ==
  LET needs_escaping ==
        \E i \in DOMAIN identifier :
          identifier[i] \notin Alphanumeric /\ identifier[i] # "_" /\ identifier[i] # "-"
  IN IF needs_escaping
     THEN Concat(Replace(Replace(identifier, "\"", "\\\""), "'", "\\'"))
     ELSE Concat(identifier)

(* An Option is << >> (None) or <<v>> (Some(v)). *)
_safe_type_name(type_def) ==
  IF type_def.name # << >> THEN type_def.name[1]
  ELSE IF type_def.inference_info # << >> THEN type_def.inference_info[1]
  ELSE "unknown"

_build_param_signature(arg, language) ==
  CASE language = "Rust" ->
         (IF arg.name # << >> THEN Concat(arg.name) \o ": " ELSE "")
           \o (IF arg.type_ # << >> THEN _safe_type_name(arg.type_[1]) ELSE "_")
    [] language \in {"Cpp", "C"} ->
         IF arg.type_ # << >>
         THEN _safe_type_name(arg.type_[1])
                \o (IF arg.name # << >> THEN " " \o Concat(arg.name) ELSE "")
         ELSE "void"
    [] language = "Java" ->
         IF arg.type_ # << >>
         THEN _safe_type_name(arg.type_[1])
                \o (IF arg.name # << >> THEN " " \o Concat(arg.name) ELSE "")
         ELSE "Object"
    [] language = "Go" ->
         Concat(arg.name)
           \o (IF arg.type_ # << >> THEN " " \o _safe_type_name(arg.type_[1]) ELSE "")
    [] OTHER ->
         Concat(arg.name)
           \o (IF arg.type_ # << >> THEN ": " \o _safe_type_name(arg.type_[1]) ELSE "")

_build_template_params(template_types) ==
  LET named == SelectSeq(template_types, LAMBDA t : t.name # << >>)
      template_names == [i \in DOMAIN named |-> named[i].name[1]]
  IN IF template_types = << >> \/ template_names = << >> THEN ""
     ELSE "<" \o Join(template_names, ", ") \o ">"

_build_return_type(return_type, language) ==
  IF return_type = << >> THEN ""
  ELSE CASE language \in {"JavaScript", "TypeScript", "TypeScriptReact"} ->
              ": " \o _safe_type_name(return_type[1])
         [] language = "Go" -> " " \o _safe_type_name(return_type[1])
         [] OTHER -> " -> " \o _safe_type_name(return_type[1])

_validate_function_declaration(func_decl) ==
  /\ func_decl.name # << >>
  /\ \A i, j \in DOMAIN func_decl.args :
       (i < j /\ func_decl.args[j].name # << >>) => func_decl.args[i].name # func_decl.args[j].name

(* The keyword the signature builders push for the language. *)
FunctionKeyword(language) ==
  CASE language = "Rust" -> "fn "
    [] language = "Python" -> "def "
    [] language \in {"JavaScript", "TypeScript", "TypeScriptReact"} -> "function "
    [] language = "Go" -> "func "
    [] OTHER -> ""

_build_fallback_signature(symbol) ==
  FunctionKeyword(symbol.language) \o _escape_identifier(symbol.name) \o "(...)"

_build_basic_signature(symbol) ==
  <<FunctionKeyword(symbol.language) \o Concat(symbol.name) \o "(...)">>

_build_varargs_signature(args, language) ==
  LET declared == [i \in DOMAIN args |-> _build_param_signature(args[i], language)]
      param_signatures ==
        CASE language = "Python" /\ declared # << >> -> declared \o <<"*args", "**kwargs">>
          [] language \in {"JavaScript", "TypeScript", "TypeScriptReact"} /\ declared # << >> ->
               Append(declared, "...args")
          [] language = "Rust" /\ declared # << >> -> Append(declared, "...")
          [] OTHER -> declared
  IN Join(param_signatures, ", ")

_build_function_modifiers(language) ==
  CASE language = "Java" -> "public "
    [] language = "Cpp" -> "virtual "
    [] OTHER -> ""

_build_namespace_prefix(symbol) ==
  IF symbol.namespace # "" /\ symbol.namespace # "global"
  THEN symbol.namespace \o "::"
  ELSE ""

_build_complete_signature(symbol, func_decl) ==
  IF ~_validate_function_declaration(func_decl)
  THEN _build_fallback_signature(symbol)
  ELSE _build_namespace_prefix(symbol)
         \o _build_function_modifiers(symbol.language)
         \o FunctionKeyword(symbol.language)
         \o _escape_identifier(symbol.name)
         \o _build_template_params(func_decl.template_types)
         \o "("
         \o _build_varargs_signature(func_decl.args, symbol.language)
         \o ")"
         \o _build_return_type(func_decl.return_type, symbol.language)
         \o (IF symbol.language = "Python" THEN ":" ELSE "")

(* Option<String>.  is_declaration tells whether the symbol downcasts to a *)
(* FunctionDeclaration, whose fields the symbol record then carries.       *)
_extract_function_signature(symbol) ==
  IF symbol.symbol_type # "FunctionDeclaration" THEN << >>
  ELSE IF ~symbol.is_declaration THEN _build_basic_signature(symbol)
  ELSE <<_build_complete_signature(symbol, symbol)>>

(* ---- state ---- *)
VARIABLES
  cg,        \* the CodeGraph
  pg,        \* the PetGraphCodeGraph
  last,      \* the last call and, for add_call_relation, B's Result
  fs,        \* file system: the symbols a parse of each file yields
  file_asts, \* CodeParser.file_asts
  pc,        \* position of the running build: idle, pass1, pass2
  found,     \* files found by scan_directory in the directory being built
  parsed,    \* files of found that parse_file accepted
  order,     \* iteration order of file_asts during this build
  pos,       \* next symbol of the current pass
  stack,     \* current_function_stack of _analyze_call_relations
  pet_stack, \* current_function_stack of _analyze_petgraph_call_relations
  builds,    \* number of builds started on this parser
  symbol,    \* the symbol handed to _extract_function_signature, << >> if none
  signature  \* whether it was extracted, and the Option<String> returned

graph_vars == <<cg, pg, last>>
build_vars == <<fs, file_asts, pc, found, parsed, order, pos, stack, pet_stack, builds>>
sig_vars == <<symbol, signature>>
vars == <<cg, pg, last, fs, file_asts, pc, found, parsed, order, pos, stack, pet_stack, builds,
          symbol, signature>>

NotExtracted == [done |-> FALSE, result |-> << >>]

InitParser ==
  /\ file_asts = EmptyMap
  /\ pc = "idle"
  /\ found = {}
  /\ parsed = {}
  /\ order = << >>
  /\ pos = 1
  /\ stack = << >>
  /\ pet_stack = << >>
  /\ builds = 0

Init ==
  /\ cg = CodeGraphNew
  /\ pg = PetGraphNew
  /\ last = "new"
  /\ fs = [f \in Files |-> << >>]
  /\ InitParser
  /\ symbol = << >>
  /\ signature = NotExtracted

AddFunction(function) ==
  /\ cg.stats.total_functions < MaxFuncs
  /\ cg' = add_function(cg, function)
  /\ pg' = pet_add_function(pg, function)
  /\ last' = "add_function"
  /\ UNCHANGED build_vars
  /\ UNCHANGED sig_vars

AddCallRelation(relation) ==
  /\ Len(cg.call_relations) < MaxEdges
  /\ cg' = add_call_relation(cg, relation)
  /\ LET r == pet_add_call_relation(pg, relation) IN
       /\ pg' = r.graph
       /\ last' = IF r.ok THEN "add_call_relation_ok" ELSE "add_call_relation_err"
  /\ UNCHANGED build_vars
  /\ UNCHANGED sig_vars

UpdateStats ==
  /\ cg' = update_stats(cg)
  /\ pg' = pet_update_stats(pg)
  /\ last' = "update_stats"
  /\ UNCHANGED build_vars
  /\ UNCHANGED sig_vars

(* save_to_json then load_from_json (or the file / binary pair): the graph *)
(* is encoded and the encoding is decoded into the graph used from then    *)
(* on.  Decoding an older encoding gives the decoding D(X) of an earlier   *)
(* graph X, which this action reaches from X itself.                       *)
Reload ==
  /\ pg' = to_petgraph(from_petgraph(pg))
  /\ last' = "load"
  /\ UNCHANGED cg
  /\ UNCHANGED build_vars
  /\ UNCHANGED sig_vars

(* A load of the given content; encoded content is what a save of the      *)
(* current graph wrote.  load_from_json takes a string, so nothing can be  *)
(* missing.  On Err the caller is left with the graph it had.              *)
Load(source, content) ==
  /\ source = "json" => content # "missing"
  /\ LET r == load(source, content, from_petgraph(pg)) IN
       /\ pg' = IF r.ok THEN r.graph ELSE pg
       /\ last' = IF r.ok THEN "load" ELSE r.message
  /\ UNCHANGED cg
  /\ UNCHANGED build_vars
  /\ UNCHANGED sig_vars

Next ==
  \/ \E function \in FunctionInfo : AddFunction(function)
  \/ \E relation \in CallRelation : AddCallRelation(relation)
  \/ UpdateStats
  \/ Reload
  \/ \E source \in Sources : \E content \in Contents : Load(source, content)

Spec == Init /\ [][Next]_vars

(* ---- the builder, symbol by symbol ---- *)
InitBuild ==
  /\ cg = CodeGraphNew
  /\ pg = PetGraphNew
  /\ last = "new"
  /\ fs \in [Files -> Asts]
  /\ TotalSymbols(fs) <= MaxSyms
  /\ InitParser
  /\ symbol = << >>
  /\ signature = NotExtracted

work == Flatten(file_asts, order)

(* build_code_graph and build_petgraph_code_graph up to the start of pass 1: *)
(* parse_directory, then a new graph.                                        *)
BuildStart(dir_files, ok_files) ==
  /\ pc = "idle"
  /\ builds < MaxBuilds
  /\ builds' = builds + 1
  /\ found' = dir_files
  /\ parsed' = ok_files
  /\ file_asts' = parse_directory(file_asts, fs, dir_files, ok_files)
  /\ order' \in Orders(DOMAIN file_asts')
  /\ cg' = CodeGraphNew
  /\ pg' = PetGraphNew
  /\ pc' = "pass1"
  /\ pos' = 1
  /\ stack' = << >>
  /\ pet_stack' = << >>
  /\ last' = "build"
  /\ UNCHANGED fs
  /\ UNCHANGED sig_vars

Pass1Step ==
  /\ pc = "pass1"
  /\ pos <= Len(work)
  /\ cg' = pass1_symbol(cg, work[pos])
  /\ pg' = pet_pass1_symbol(pg, work[pos])
  /\ pos' = pos + 1
  /\ UNCHANGED <<last, fs, file_asts, pc, found, parsed, order, stack, pet_stack, builds>>
  /\ UNCHANGED sig_vars

(* The declaration loop is over: _analyze_call_relations is entered. *)
Pass1Done ==
  /\ pc = "pass1"
  /\ pos > Len(work)
  /\ pc' = "pass2"
  /\ pos' = 1
  /\ stack' = << >>
  /\ pet_stack' = << >>
  /\ UNCHANGED <<cg, pg, last, fs, file_asts, found, parsed, order, builds>>
  /\ UNCHANGED sig_vars

Pass2Step ==
  /\ pc = "pass2"
  /\ pos <= Len(work)
  /\ LET item == work[pos]
         cur == IF item.idx = 1 THEN << >> ELSE stack
         pet_cur == IF item.idx = 1 THEN << >> ELSE pet_stack
     IN /\ stack' = push_enclosing(cur, find_functions_by_name(cg, item.symbol.name), item)
        /\ cg' = _analyze_call_relations(cg, cur, item)
        /\ pet_stack' = push_enclosing(pet_cur, pet_find_functions_by_name(pg, item.symbol.name), item)
        /\ pg' = _analyze_petgraph_call_relations(pg, pet_cur, item)
  /\ pos' = pos + 1
  /\ UNCHANGED <<last, fs, file_asts, pc, found, parsed, order, builds>>
  /\ UNCHANGED sig_vars

(* update_stats and return Ok(code_graph). *)
BuildFinish ==
  /\ pc = "pass2"
  /\ pos > Len(work)
  /\ cg' = update_stats(cg)
  /\ pg' = pet_update_stats(pg)
  /\ pc' = "idle"
  /\ last' = "build_ok"
  /\ stack' = << >>
  /\ pet_stack' = << >>
  /\ UNCHANGED <<fs, file_asts, found, parsed, order, pos, builds>>
  /\ UNCHANGED sig_vars

NextBuild ==
  \/ \E dir_files \in SUBSET Files :
       \E ok_files \in SUBSET dir_files : BuildStart(dir_files, ok_files)
  \/ Pass1Step
  \/ Pass1Done
  \/ Pass2Step
  \/ BuildFinish

SpecBuild == InitBuild /\ [][NextBuild]_vars

(* ---- signature extraction, one declaration at a time ---- *)
LanguageIds == {"Rust", "Python", "TypeScript", "Go", "Java", "Cpp"}

SymbolNames ==
  {<< >>,
   <<"t", "e", "s", "t", "_", "f", "u", "n", "c", "t", "i", "o", "n">>,
   <<"g", "r", "e", "e", "t">>,
   <<"f", "'">>}

Namespaces == {"", "global", "test"}

Named(name) == [name |-> <<name>>, inference_info |-> << >>]

FunctionArgs ==
  {[name |-> <<"x">>, type_ |-> <<Named("i32")>>],
   [name |-> <<"y">>, type_ |-> <<Named("String")>>],
   [name |-> <<"x">>, type_ |-> <<Named("String")>>],
   [name |-> <<"n", "a", "m", "e">>, type_ |-> <<Named("str")>>],
   [name |-> <<"a", "g", "e">>, type_ |-> <<Named("int")>>],
   [name |-> <<"p", "a", "r", "a", "m">>, type_ |-> << >>],
   [name |-> << >>, type_ |-> <<[name |-> << >>, inference_info |-> <<"u8">>]>>]}

(* The symbols handed to _extract_function_signature: declarations with    *)
(* every combination of fields, and symbols that are no declarations.      *)
DeclarationSymbols ==
  [symbol_type : {"FunctionDeclaration"}, is_declaration : {TRUE},
   language : LanguageIds, name : SymbolNames, namespace : Namespaces,
   template_types : SeqsUpTo({Named("T"), [name |-> << >>, inference_info |-> << >>]}, MaxTemplates),
   args : SeqsUpTo(FunctionArgs, MaxArgs),
   return_type : {<< >>, <<Named("bool")>>, <<Named("str")>>}]
  \cup
  [symbol_type : {"FunctionDeclaration", "FunctionCall"}, is_declaration : {FALSE},
   language : LanguageIds, name : SymbolNames, namespace : Namespaces,
   template_types : {<< >>}, args : {<< >>}, return_type : {<< >>}]

InitSignature ==
  /\ cg = CodeGraphNew
  /\ pg = PetGraphNew
  /\ last = "new"
  /\ fs = [f \in Files |-> << >>]
  /\ InitParser
  /\ symbol \in DeclarationSymbols
  /\ signature = NotExtracted

ExtractFunctionSignature ==
  /\ ~signature.done
  /\ signature' = [done |-> TRUE, result |-> _extract_function_signature(symbol)]
  /\ UNCHANGED symbol
  /\ UNCHANGED graph_vars
  /\ UNCHANGED build_vars

NextSignature == ExtractFunctionSignature

SpecSignature == InitSignature /\ [][NextSignature]_vars

(* ---- graphs handed to the analyses ---- *)
(* The same graph API as in Spec, driven with more functions and edges and *)
(* fewer record fields: the analyses read ids, names and edge endpoints.   *)
AnalyzedIds == 1..MaxNodes

AnalyzedFunctions ==
  {[id |-> i, name |-> n, file_path |-> 1, language |-> LangOf(1)] :
     i \in AnalyzedIds, n \in Names}

AnalyzedRelations ==
  {[caller_id |-> a, callee_id |-> b, line_number |-> 1, is_resolved |-> TRUE] :
     a \in AnalyzedIds, b \in AnalyzedIds}

InsertFunction(function) ==
  /\ cg.stats.total_functions < MaxNodes
  /\ cg' = add_function(cg, function)
  /\ pg' = pet_add_function(pg, function)
  /\ UNCHANGED last
  /\ UNCHANGED build_vars
  /\ UNCHANGED sig_vars

InsertCallRelation(relation) ==
  /\ Len(cg.call_relations) < MaxCalls
  /\ cg' = add_call_relation(cg, relation)
  /\ pg' = pet_add_call_relation(pg, relation).graph
  /\ UNCHANGED last
  /\ UNCHANGED build_vars
  /\ UNCHANGED sig_vars

NextAnalyze ==
  \/ \E function \in AnalyzedFunctions : InsertFunction(function)
  \/ \E relation \in AnalyzedRelations : InsertCallRelation(relation)

SpecAnalyze == Init /\ [][NextAnalyze]_vars

(* ---- call chains ---- *)
(* The ids an edge list mentions. *)
EdgeIds(rels) ==
  {rels[i].caller_id : i \in DOMAIN rels} \cup {rels[i].callee_id : i \in DOMAIN rels}

Reverse(s) == [i \in DOMAIN s |-> s[Len(s) + 1 - i]]

(* get_callees of representation B: the outgoing edges of the node of the  *)
(* id, most recently added first (petgraph's adjacency list order), each   *)
(* with the function held by its target node; nothing for an unknown id.   *)
pet_get_callees(g, function_id) ==
  IF function_id \in DOMAIN g.function_to_node
  THEN LET out == SelectSeq(g.edges, LAMBDA e : e.source = g.function_to_node[function_id])
       IN Reverse([i \in DOMAIN out |-> [function |-> g.nodes[out[i].target],
                                          relation |-> out[i].weight]])
  ELSE << >>

(* get_callers of representation B: the incoming edges of the node of the  *)
(* id, most recently added first; nothing for an unknown id.               *)
pet_get_callers(g, function_id) ==
  IF function_id \in DOMAIN g.function_to_node
  THEN LET inc == SelectSeq(g.edges, LAMBDA e : e.target = g.function_to_node[function_id])
       IN Reverse([i \in DOMAIN inc |-> [function |-> g.nodes[inc[i].source],
                                          relation |-> inc[i].weight]])
  ELSE << >>

(* Mutant: the recursion moves along the callers of the edges it found. *)
CalleeIdsA_callers(g) ==
  [id \in (DOMAIN g.functions) \cup EdgeIds(g.call_relations) |->
     LET callees == get_callers(g, id) IN [i \in DOMAIN callees |-> callees[i].caller_id]]

(* The ids the recursion of get_call_chain moves to, per function id. *)
CalleeIdsA(g) ==
  [id \in (DOMAIN g.functions) \cup EdgeIds(g.call_relations) |->
     LET callees == get_callees(g, id) IN [i \in DOMAIN callees |-> callees[i].callee_id]]

CalleeIdsB(g) ==
  [id \in {g.nodes[i].id : i \in DOMAIN g.nodes} \cup EdgeIds(get_all_call_relations(g)) |->
     LET callees == pet_get_callees(g, id) IN [i \in DOMAIN callees |-> callees[i].function.id]]

(* _get_call_chain_recursive, the same code in both representations: the  *)
(* chains pushed by the call and the visited set after it.  expanded is a  *)
(* history of the calls that passed the early return, as records of the    *)
(* function id and the depth; the code does not read it.                   *)
RECURSIVE _get_call_chain_recursive(_, _, _, _, _, _)
RECURSIVE ExpandCallees(_, _, _, _, _, _, _, _, _)
ExpandCallees(callee_ids, function_id, callees, k, chains, visited, depth, max_depth, expanded) ==
  IF k > Len(callees) THEN [chains |-> chains, visited |-> visited, expanded |-> expanded]
  ELSE LET sub == _get_call_chain_recursive(callee_ids, callees[k], visited, depth + 1,
                                            max_depth, expanded)
           sub_chains == [i \in DOMAIN sub.chains |-> <<function_id>> \o sub.chains[i]]
       IN ExpandCallees(callee_ids, function_id, callees, k + 1,
                        chains \o sub_chains, sub.visited, depth, max_depth, sub.expanded)

(* Mutant: the chains of a callee are pushed without the caller in front. *)
_get_call_chain_recursive_unprefixed(callee_ids, function_id, visited, depth, max_depth, expanded) ==
  IF depth >= max_depth \/ function_id \in visited
  THEN [chains |-> << >>, visited |-> visited, expanded |-> expanded]
  ELSE LET callees == IF function_id \in DOMAIN callee_ids THEN callee_ids[function_id] ELSE << >>
           log == Append(expanded, [id |-> function_id, depth |-> depth])
       IN IF callees = << >>
          THEN [chains |-> << <<function_id>> >>, visited |-> visited \cup {function_id},
                expanded |-> log]
          ELSE LET sub == ExpandCallees(callee_ids, function_id, callees, 1, << >>,
                                        visited \cup {function_id}, depth, max_depth, log)
               IN [sub EXCEPT !.chains = [i \in DOMAIN sub.chains |-> Tail(sub.chains[i])]]

(* Mutant: a function that was visited before is expanded again. *)
_get_call_chain_recursive_revisiting(callee_ids, function_id, visited, depth, max_depth, expanded) ==
  IF depth >= max_depth
  THEN [chains |-> << >>, visited |-> visited, expanded |-> expanded]
  ELSE LET callees == IF function_id \in DOMAIN callee_ids THEN callee_ids[function_id] ELSE << >>
           log == Append(expanded, [id |-> function_id, depth |-> depth])
       IN IF callees = << >>
          THEN [chains |-> << <<function_id>> >>, visited |-> visited \cup {function_id},
                expanded |-> log]
          ELSE ExpandCallees(callee_ids, function_id, callees, 1, << >>,
                             visited \cup {function_id}, depth, max_depth, log)

_get_call_chain_recursive(callee_ids, function_id, visited, depth, max_depth, expanded) ==
  IF depth >= max_depth \/ function_id \in visited
  THEN [chains |-> << >>, visited |-> visited, expanded |-> expanded]
  ELSE LET callees == IF function_id \in DOMAIN callee_ids THEN callee_ids[function_id] ELSE << >>
           log == Append(expanded, [id |-> function_id, depth |-> depth])
       IN IF callees = << >>
          THEN [chains |-> << <<function_id>> >>, visited |-> visited \cup {function_id},
                expanded |-> log]
          ELSE ExpandCallees(callee_ids, function_id, callees, 1, << >>,
                             visited \cup {function_id}, depth, max_depth, log)

get_call_chain(g, function_id, max_depth) ==
  _get_call_chain_recursive(CalleeIdsA(g), function_id, {}, 0, max_depth, << >>).chains

pet_get_call_chain(g, function_id, max_depth) ==
  _get_call_chain_recursive(CalleeIdsB(g), function_id, {}, 0, max_depth, << >>).chains

(* ---- CodeGraphAnalyzer ---- *)
(* code_graph is the analyzer's Option<CodeGraph>: << >> or <<g>>. *)
FilterMapIds(ids, m) ==
  LET kept == SelectIds(ids, m) IN [i \in DOMAIN kept |-> m[kept[i]]]

find_call_chains(code_graph, function_name, max_depth) ==
  IF code_graph = << >> THEN << >>
  ELSE LET g == code_graph[1]
           functions == find_functions_by_name(g, function_name)
       IN IF functions = << >> THEN << >>
          ELSE LET chains == get_call_chain(g, functions[1].id, max_depth)
               IN [i \in DOMAIN chains |-> FilterMapIds(chains[i], g.functions)]

(* ---- cycle detection ---- *)
(* HashMap::values(): the records in any order. *)
ValuesOrders(g) ==
  {[i \in DOMAIN o |-> g.functions[o[i]]] : o \in Orders(DOMAIN g.functions)}

(* Mutant: the cycle is emitted without the closing callee. *)
new_cycle_open(cycle, callee) ==
  LET start_idx == CHOOSE i \in DOMAIN cycle :
                     cycle[i].id = callee.id /\ \A j \in 1..(i - 1) : cycle[j].id # callee.id
  IN SubSeq(cycle, start_idx, Len(cycle))

(* Mutant: the whole current path is emitted, then callee. *)
new_cycle_whole(cycle, callee) == Append(cycle, callee)

(* The path from the first occurrence of callee on, then callee again. *)
new_cycle(cycle, callee) ==
  LET start_idx == CHOOSE i \in DOMAIN cycle :
                     cycle[i].id = callee.id /\ \A j \in 1..(i - 1) : cycle[j].id # callee.id
  IN Append(SubSeq(cycle, start_idx, Len(cycle)), callee)

(* st holds visited, rec_stack, cycle (the current path) and cycles, and    *)
(* explored, a history of the function ids the traversal was entered for;  *)
(* the code does not read it.                                              *)
RECURSIVE _dfs_cycle_detection(_, _, _)
RECURSIVE VisitCallees(_, _, _, _)
VisitCallees(code_graph, callees, k, st) ==
  IF k > Len(callees) THEN st
  ELSE LET callee_id == callees[k].callee_id
           after ==
             IF callee_id \notin DOMAIN code_graph.functions THEN st
             ELSE LET callee == code_graph.functions[callee_id] IN
                  IF callee.id \notin st.visited
                  THEN _dfs_cycle_detection(callee, code_graph, st)
                  ELSE IF callee.id \in st.rec_stack
                            /\ \E i \in DOMAIN st.cycle : st.cycle[i].id = callee.id
                       THEN [st EXCEPT !.cycles = Append(@, new_cycle(st.cycle, callee))]
                       ELSE st
       IN VisitCallees(code_graph, callees, k + 1, after)

(* Mutant: a function left by the traversal stays on the recursion stack   *)
(* and on the path.                                                        *)
_dfs_cycle_detection_nopop(function, code_graph, st) ==
  VisitCallees(code_graph, get_callees(code_graph, function.id), 1,
               [st EXCEPT !.visited = @ \cup {function.id},
                          !.rec_stack = @ \cup {function.id},
                          !.cycle = Append(@, function),
                          !.explored = Append(@, function.id)])

_dfs_cycle_detection(function, code_graph, st) ==
  LET done == VisitCallees(code_graph, get_callees(code_graph, function.id), 1,
                           [st EXCEPT !.visited = @ \cup {function.id},
                                      !.rec_stack = @ \cup {function.id},
                                      !.cycle = Append(@, function),
                                      !.explored = Append(@, function.id)])
  IN [done EXCEPT !.rec_stack = @ \ {function.id},
                  !.cycle = SubSeq(@, 1, Len(@) - 1)]

RECURSIVE VisitRoots(_, _, _, _)
VisitRoots(code_graph, values, k, st) ==
  IF k > Len(values) THEN st
  ELSE VisitRoots(code_graph, values, k + 1,
                  IF values[k].id \notin st.visited
                  THEN _dfs_cycle_detection(values[k], code_graph, [st EXCEPT !.cycle = << >>])
                  ELSE st)

(* Mutant: only the first function of the iteration is used as a root. *)
find_circular_dependencies_firstroot(code_graph, values) ==
  IF code_graph = << >> THEN << >>
  ELSE VisitRoots(code_graph[1], IF values = << >> THEN values ELSE <<values[1]>>, 1,
                  [visited |-> {}, rec_stack |-> {}, cycle |-> << >>, cycles |-> << >>,
                   explored |-> << >>]).cycles

(* values is the order in which functions.values() yields the records. *)
find_circular_dependencies(code_graph, values) ==
  IF code_graph = << >> THEN << >>
  ELSE VisitRoots(code_graph[1], values, 1,
                  [visited |-> {}, rec_stack |-> {}, cycle |-> << >>, cycles |-> << >>,
                   explored |-> << >>]).cycles

(* Directed reachability over a set of <<from, to>> pairs. *)
RECURSIVE ReachIn(_, _, _, _)
ReachIn(E, a, b, n) ==
  /\ n >= 1
  /\ \E e \in E : e[1] = a /\ (e[2] = b \/ ReachIn(E, e[2], b, n - 1))

Reaches(E, a, b) == ReachIn(E, a, b, Cardinality(E))

Cyclic(E) == \E e \in E : Reaches(E, e[1], e[1])

(* PetGraphCodeGraph::has_cycles: petgraph's is_cyclic_directed. *)
has_cycles(g) == Cyclic({<<g.edges[i].source, g.edges[i].target>> : i \in DOMAIN g.edges})

(* ---- callers, callees, degree analyses ---- *)
(* Mutant: the functions that call nothing are returned as leaves. *)
find_leaf_functions_outdegree(code_graph, values) ==
  IF code_graph = << >> THEN << >>
  ELSE SelectSeq(values, LAMBDA f : get_callees(code_graph[1], f.id) = << >>)

find_leaf_functions(code_graph, values) ==
  IF code_graph = << >> THEN << >>
  ELSE SelectSeq(values, LAMBDA f : get_callers(code_graph[1], f.id) = << >>)

find_root_functions(code_graph, values) ==
  IF code_graph = << >> THEN << >>
  ELSE SelectSeq(values, LAMBDA f : get_callees(code_graph[1], f.id) = << >>)

(* The records of the caller ids (callee ids) of rels that are stored. *)
RECURSIVE StoredEndpoints(_, _, _)
StoredEndpoints(g, rels, caller_side) ==
  IF rels = << >> THEN << >>
  ELSE LET id == IF caller_side THEN Head(rels).caller_id ELSE Head(rels).callee_id
       IN (IF id \in DOMAIN g.functions THEN <<g.functions[id]>> ELSE << >>)
            \o StoredEndpoints(g, Tail(rels), caller_side)

RECURSIVE AllCallers(_, _)
AllCallers(g, functions) ==
  IF functions = << >> THEN << >>
  ELSE StoredEndpoints(g, get_callers(g, Head(functions).id), TRUE)
         \o AllCallers(g, Tail(functions))

RECURSIVE AllCallees(_, _)
AllCallees(g, functions) ==
  IF functions = << >> THEN << >>
  ELSE StoredEndpoints(g, get_callees(g, Head(functions).id), FALSE)
         \o AllCallees(g, Tail(functions))

find_callers(code_graph, function_name) ==
  IF code_graph = << >> THEN << >>
  ELSE AllCallers(code_graph[1], find_functions_by_name(code_graph[1], function_name))

find_callees(code_graph, function_name) ==
  IF code_graph = << >> THEN << >>
  ELSE AllCallees(code_graph[1], find_functions_by_name(code_graph[1], function_name))

(* sort_by(|a, b| b.1.cmp(&a.1)): stable, larger scores first. *)
RECURSIVE SortByScoreDesc(_)
SortByScoreDesc(scores) ==
  IF scores = << >> THEN << >>
  ELSE LET sorted == SortByScoreDesc(SubSeq(scores, 1, Len(scores) - 1))
           x == scores[Len(scores)]
           keep == Cardinality({i \in DOMAIN sorted : sorted[i][2] >= x[2]})
       IN SubSeq(sorted, 1, keep) \o <<x>> \o SubSeq(sorted, keep + 1, Len(sorted))

Truncate(s, limit) == SubSeq(s, 1, IF limit < Len(s) THEN limit ELSE Len(s))

complexity_scores(g, values) ==
  [i \in DOMAIN values |->
     <<values[i], Len(get_callers(g, values[i].id)) + Len(get_callees(g, values[i].id))>>]

(* Mutant: the scores are truncated without being sorted. *)
find_most_complex_functions_unsorted(code_graph, values, limit) ==
  IF code_graph = << >> THEN << >>
  ELSE Truncate(complexity_scores(code_graph[1], values), limit)

find_most_complex_functions(code_graph, values, limit) ==
  IF code_graph = << >> THEN << >>
  ELSE Truncate(SortByScoreDesc(complexity_scores(code_graph[1], values)), limit)

(* ======================= properties ======================= *)
NodeIds(g) == {g.nodes[i].id : i \in DOMAIN g.nodes}

IndexedIds(m) == UNION {Range(m[k]) : k \in DOMAIN m}

KeyCount(rels, rel) ==
  Cardinality({i \in DOMAIN rels :
                 /\ rels[i].caller_id = rel.caller_id
                 /\ rels[i].callee_id = rel.callee_id
                 /\ rels[i].line_number = rel.line_number})

IsPrefix(s, t) == Len(s) <= Len(t) /\ \A i \in DOMAIN s : s[i] = t[i]

(* C1: after any sequence of add_function / add_call_relation calls, in    *)
(* both representations, stats.total_functions equals the number of        *)
(* records in the id -> function store and the sum of the per-language     *)
(* histogram.  Fails when an id is inserted a second time.                 *)
C1_TotalFunctionsMatchesStore ==
  /\ cg.stats.total_functions = Cardinality(DOMAIN cg.functions)
  /\ cg.stats.total_functions = SumValues(cg.stats.languages)
  /\ pg.stats.total_functions = Cardinality(DOMAIN pg.function_to_node)
  /\ pg.stats.total_functions = SumValues(pg.stats.languages)

(* C2: resolved_calls + unresolved_calls equals the number of call edges   *)
(* of the graph, in both representations, after accepted and rejected      *)
(* insertions and after a decode.                                          *)
C2_CallCountsPartition ==
  /\ cg.stats.resolved_calls + cg.stats.unresolved_calls = Len(cg.call_relations)
  /\ pg.stats.resolved_calls + pg.stats.unresolved_calls = Len(pg.edges)

C2_Witness ==
  /\ last = "load"
  /\ Len(pg.edges) >= 1
  /\ pg.stats.unresolved_calls >= 1
  /\ Len(cg.call_relations) > Len(pg.edges)

(* C3: the name index and the file index hold exactly the ids of the       *)
(* function store: each stored id once in the name index under the stored  *)
(* record's name, once in the file index under its file path, and no id    *)
(* that is not stored.  Fails when an id is inserted a second time.        *)
C3_IndicesReflectStore ==
  /\ \A id \in DOMAIN cg.functions :
       /\ Occurrences(cg.function_names, id) = 1
       /\ cg.functions[id].name \in DOMAIN cg.function_names
       /\ id \in Range(cg.function_names[cg.functions[id].name])
       /\ Occurrences(cg.file_functions, id) = 1
       /\ cg.functions[id].file_path \in DOMAIN cg.file_functions
       /\ id \in Range(cg.file_functions[cg.functions[id].file_path])
  /\ IndexedIds(cg.function_names) \subseteq DOMAIN cg.functions
  /\ IndexedIds(cg.file_functions) \subseteq DOMAIN cg.functions
  /\ \A id \in DOMAIN pg.function_to_node :
       LET record == pg.nodes[pg.function_to_node[id]] IN
       /\ Occurrences(pg.function_names, id) = 1
       /\ record.name \in DOMAIN pg.function_names
       /\ id \in Range(pg.function_names[record.name])
       /\ Occurrences(pg.file_functions, id) = 1
       /\ record.file_path \in DOMAIN pg.file_functions
       /\ id \in Range(pg.file_functions[record.file_path])
  /\ IndexedIds(pg.function_names) \subseteq DOMAIN pg.function_to_node
  /\ IndexedIds(pg.file_functions) \subseteq DOMAIN pg.function_to_node

(* C4: round trip.  Decoding the encoding of the representation-B graph    *)
(* gives the same set of function records, the same multiset of call edges *)
(* keyed by (caller id, callee id, line number), the same name and file    *)
(* indices and the same stats; the empty graph included.                   *)
C4_RoundTrip ==
  LET decoded == to_petgraph(from_petgraph(pg))
      before == get_all_call_relations(pg)
      after == get_all_call_relations(decoded)
  IN /\ Range(decoded.nodes) = Range(pg.nodes)
     /\ Len(after) = Len(before)
     /\ \A rel \in Range(before) \cup Range(after) :
          KeyCount(after, rel) = KeyCount(before, rel)
     /\ decoded.function_names = pg.function_names
     /\ decoded.file_functions = pg.file_functions
     /\ decoded.stats = pg.stats

C4_Witness ==
  /\ last = "load"
  /\ Len(pg.nodes) >= 2
  /\ Len(pg.edges) >= 2
  /\ pg.stats.total_files >= 1

(* C5: in representation B an add_call_relation whose caller id or callee  *)
(* id has no inserted function returns Err and leaves the whole graph      *)
(* (nodes, edges, indices, stats) as it was.                               *)
C5_RejectLeavesGraphUnchanged ==
  [][\A relation \in CallRelation :
       (/\ AddCallRelation(relation)
        /\ \/ relation.caller_id \notin NodeIds(pg)
           \/ relation.callee_id \notin NodeIds(pg))
       => (last' = "add_call_relation_err" /\ pg' = pg)]_vars

C5_Witness ==
  /\ last = "add_call_relation_err"
  /\ Len(pg.nodes) >= 1
  /\ Len(pg.edges) >= 1

(* C6: in representation B every call edge has a caller id and a callee id *)
(* of inserted functions and joins the node holding the caller to the node *)
(* holding the callee, after insertions and decodes alike.                 *)
C6_EdgeEndpointsExist ==
  \A i \in DOMAIN pg.edges :
    LET e == pg.edges[i] IN
    /\ e.weight.caller_id \in NodeIds(pg)
    /\ e.weight.callee_id \in NodeIds(pg)
    /\ e.source \in DOMAIN pg.nodes
    /\ e.target \in DOMAIN pg.nodes
    /\ pg.nodes[e.source].id = e.weight.caller_id
    /\ pg.nodes[e.target].id = e.weight.callee_id

C6_Witness ==
  /\ last = "load"
  /\ \E i \in DOMAIN pg.edges : pg.edges[i].source # pg.edges[i].target

(* C7 as claimed: in representation A, get_callers of an id that was never *)
(* inserted as a function returns an empty list.                           *)
C7_CallersOfMissingIdEmpty ==
  \A id \in Ids : id \notin DOMAIN cg.functions => get_callers(cg, id) = << >>

(* C7 as amended: representation A accepts an edge whose callee id was     *)
(* never inserted (appended and counted), and get_callers of that id then  *)
(* returns that edge after the ones it returned before; as long as the id  *)
(* is not inserted, later calls keep returning what earlier ones returned. *)
C7_DanglingEdgeIsReturned ==
  [][/\ \A relation \in CallRelation :
          (AddCallRelation(relation) /\ relation.callee_id \notin DOMAIN cg.functions)
          => /\ cg'.call_relations = Append(cg.call_relations, relation)
             /\ cg'.stats.resolved_calls + cg'.stats.unresolved_calls
                  = cg.stats.resolved_calls + cg.stats.unresolved_calls + 1
             /\ get_callers(cg', relation.callee_id)
                  = Append(get_callers(cg, relation.callee_id), relation)
     /\ \A id \in Ids :
          id \notin DOMAIN cg'.functions
          => IsPrefix(get_callers(cg, id), get_callers(cg', id))]_vars

C7_Witness ==
  \E id \in Ids :
    /\ id \notin DOMAIN cg.functions
    /\ get_callers(cg, id) # << >>
    /\ last = "add_call_relation_err"

(* ---- builder properties (SpecBuild) ---- *)
IsDeclaration(f, i) == file_asts[f][i].type = "FunctionDeclaration"

IsCall(f, i) == file_asts[f][i].type = "FunctionCall"

(* The declarations held by the parser, as (file, index). *)
Declarations ==
  UNION {{<<f, i>> : i \in {k \in DOMAIN file_asts[f] : IsDeclaration(f, k)}} :
           f \in DOMAIN file_asts}

(* The call sites that come after a declaration of their own file. *)
EnclosedCalls ==
  UNION {{<<f, i>> : i \in {k \in DOMAIN file_asts[f] :
                              IsCall(f, k) /\ \E d \in 1..(k - 1) : IsDeclaration(f, d)}} :
           f \in DOMAIN file_asts}

EdgesTo(rels, callee, line) ==
  Cardinality({i \in DOMAIN rels :
                 rels[i].callee_id = callee /\ rels[i].line_number = line})

CallsNaming(name, line) ==
  Cardinality({c \in EnclosedCalls : c[2] = line /\ file_asts[c[1]][c[2]].name = name})

BuildReturned == pc = "idle" /\ builds >= 1

(* C8: a build starts a fresh graph: the graph a build returns holds only  *)
(* functions and call edges of files found under the directory of that     *)
(* build, nothing of files found only under the directory of an earlier    *)
(* build on the same parser.                                               *)
C8_OnlyCurrentDirectory ==
  BuildReturned =>
    /\ \A id \in DOMAIN cg.functions : cg.functions[id].file_path \in found
    /\ \A i \in DOMAIN pg.nodes : pg.nodes[i].file_path \in found
    /\ \A i \in DOMAIN cg.call_relations :
         /\ cg.call_relations[i].caller_file \in found
         /\ cg.call_relations[i].callee_file \in found
    /\ \A i \in DOMAIN pg.edges :
         /\ pg.edges[i].weight.caller_file \in found
         /\ pg.edges[i].weight.callee_file \in found

(* C9: a build returns Ok whichever files fail, with a graph built from    *)
(* the files that parsed; when no file of the directory parsed, the graph  *)
(* is empty and all its stats are zero.                                    *)
C9_BuiltFromParsedFiles ==
  BuildReturned =>
    /\ last = "build_ok"
    /\ DOMAIN cg.functions = {Guid(d[1], d[2]) : d \in {x \in Declarations : x[1] \in parsed}}
    /\ NodeIds(pg) = {Guid(d[1], d[2]) : d \in {x \in Declarations : x[1] \in parsed}}
    /\ (parsed = {} => cg = CodeGraphNew /\ pg = PetGraphNew)

(* C10: pass ordering is a barrier in both builders: when the first call   *)
(* site is resolved every declaration of every file is inserted, and the   *)
(* finished graph has, for every declaration, one edge per call site that  *)
(* names it and has an enclosing function, wherever the declaration is.    *)
C10_PassBarrier ==
  /\ (pc = "pass2" \/ cg.call_relations # << >> \/ pg.edges # << >>)
       => \A d \in Declarations :
            /\ Guid(d[1], d[2]) \in DOMAIN cg.functions
            /\ Guid(d[1], d[2]) \in NodeIds(pg)
  /\ BuildReturned
       => \A d \in Declarations : \A line \in 1..MaxSyms :
            LET name == file_asts[d[1]][d[2]].name IN
            /\ EdgesTo(cg.call_relations, Guid(d[1], d[2]), line) = CallsNaming(name, line)
            /\ EdgesTo(get_all_call_relations(pg), Guid(d[1], d[2]), line) = CallsNaming(name, line)

(* A call site of the first file walked that names a function declared in *)
(* the file walked after it, with its edge in both graphs.                 *)
C10_Witness ==
  /\ BuildReturned
  /\ Len(order) >= 2
  /\ \E c \in EnclosedCalls : \E d \in Declarations :
       /\ c[1] = order[1]
       /\ d[1] = order[2]
       /\ file_asts[d[1]][d[2]].name = file_asts[c[1]][c[2]].name
       /\ EdgesTo(cg.call_relations, Guid(d[1], d[2]), c[2]) >= 1
       /\ EdgesTo(get_all_call_relations(pg), Guid(d[1], d[2]), c[2]) >= 1

(* A call site that names a function declared later in its own file, with  *)
(* its edge in both graphs.                                                *)
C10_WitnessSameFile ==
  /\ BuildReturned
  /\ \E c \in EnclosedCalls : \E d \in Declarations :
       /\ d[1] = c[1]
       /\ d[2] > c[2]
       /\ file_asts[d[1]][d[2]].name = file_asts[c[1]][c[2]].name
       /\ EdgesTo(cg.call_relations, Guid(d[1], d[2]), c[2]) >= 1
       /\ EdgesTo(get_all_call_relations(pg), Guid(d[1], d[2]), c[2]) >= 1

(* ---- pass 2 properties (SpecBuild) ---- *)
(* The ids of the function records named name. *)
RecordsNamed(g, name) == {id \in DOMAIN g.functions : g.functions[id].name = name}

PetRecordsNamed(g, name) == {g.nodes[i].id : i \in {k \in DOMAIN g.nodes : g.nodes[k].name = name}}

(* The relations a step appended. *)
Appended(before, after) == SubSeq(after, Len(before) + 1, Len(after))

CalleeIds(rels) == {rels[i].callee_id : i \in DOMAIN rels}

(* The symbol is a call site that follows a declaration of its own file. *)
HasEnclosing(item) ==
  /\ item.symbol.type = "FunctionCall"
  /\ \E d \in 1..(item.idx - 1) : IsDeclaration(item.file, d)

(* C11: name-only resolution.  A call site with an enclosing function      *)
(* emits one edge per function record whose name is the call site's name   *)
(* (none when no record has it), each with that record as callee and       *)
(* marked resolved; any other symbol emits nothing; so unresolved_calls    *)
(* stays 0 in every graph of the builder.                                  *)
C11_NameOnlyResolution ==
  [][/\ Pass2Step =>
          LET item == work[pos]
              newA == Appended(cg.call_relations, cg'.call_relations)
              newB == Appended(get_all_call_relations(pg), get_all_call_relations(pg'))
          IN /\ IsPrefix(cg.call_relations, cg'.call_relations)
             /\ IsPrefix(get_all_call_relations(pg), get_all_call_relations(pg'))
             /\ IF HasEnclosing(item)
                THEN /\ Len(newA) = Cardinality(RecordsNamed(cg, item.symbol.name))
                     /\ CalleeIds(newA) = RecordsNamed(cg, item.symbol.name)
                     /\ Len(newB) = Cardinality(PetRecordsNamed(pg, item.symbol.name))
                     /\ CalleeIds(newB) = PetRecordsNamed(pg, item.symbol.name)
                     /\ \A rel \in Range(newA) \cup Range(newB) : rel.is_resolved
                ELSE newA = << >> /\ newB = << >>
     /\ cg'.stats.unresolved_calls = 0
     /\ pg'.stats.unresolved_calls = 0]_vars

(* One call site resolved to two functions of the same name, and the      *)
(* resolved counter counting both edges.                                   *)
C11_Witness ==
  /\ BuildReturned
  /\ \E i, j \in DOMAIN cg.call_relations :
       /\ cg.call_relations[i].line_number = cg.call_relations[j].line_number
       /\ cg.call_relations[i].caller_id = cg.call_relations[j].caller_id
       /\ cg.call_relations[i].callee_id # cg.call_relations[j].callee_id
       /\ cg.call_relations[i].callee_name = cg.call_relations[j].callee_name
  /\ Len(pg.edges) = Len(cg.call_relations)
  /\ cg.stats.resolved_calls >= 2
  /\ pg.stats.resolved_calls >= 2

(* The last declaration before index i in file f. *)
EnclosingDeclaration(f, i) ==
  CHOOSE d \in 1..(i - 1) :
    IsDeclaration(f, d) /\ \A e \in (d + 1)..(i - 1) : ~IsDeclaration(f, e)

(* C12: caller attribution.  Every edge emitted for a call site has as     *)
(* caller_id the id of the last declaration before the call site in the    *)
(* call site's file, and as caller_file that file.  Fails when an earlier  *)
(* function record has the name of that declaration.                       *)
C12_CallerIsNearestDeclaration ==
  [][Pass2Step =>
       LET item == work[pos]
           newA == Appended(cg.call_relations, cg'.call_relations)
           newB == Appended(get_all_call_relations(pg), get_all_call_relations(pg'))
       IN \A rel \in Range(newA) \cup Range(newB) :
            /\ rel.caller_id = Guid(item.file, EnclosingDeclaration(item.file, item.idx))
            /\ rel.caller_file = item.file]_vars

(* ---- analysis properties (SpecAnalyze) ---- *)
(* The sequences of distinct ids. *)
IdChains == UNION {Orders(S) : S \in (SUBSET AnalyzedIds) \ {{}}}

(* g is the simple chain chain[1] -> chain[2] -> ... and nothing else. *)
IsSimpleChain(g, chain) ==
  /\ DOMAIN g.functions = Range(chain)
  /\ Len(g.call_relations) = Len(chain) - 1
  /\ \A k \in 1..(Len(chain) - 1) :
       \E i \in DOMAIN g.call_relations :
         /\ g.call_relations[i].caller_id = chain[k]
         /\ g.call_relations[i].callee_id = chain[k + 1]

RecordsOf(g, chain) == [k \in DOMAIN chain |-> g.functions[chain[k]]]

(* C13 as claimed: on a graph that is a simple chain f1 -> ... -> fn of    *)
(* distinct functions, find_call_chains(name of f1, max_depth) with        *)
(* max_depth >= n returns the one chain f1..fn.                            *)
C13_ChainOfSimpleChain ==
  \A chain \in IdChains :
    IsSimpleChain(cg, chain) =>
      \A max_depth \in Len(chain)..MaxDepth :
        find_call_chains(<<cg>>, cg.functions[chain[1]].name, max_depth)
          = <<RecordsOf(cg, chain)>>

(* C13 as amended: the same, when f1 is the first function the name index  *)
(* yields for its name (always so when no other function has that name).   *)
C13_ChainOfSimpleChainFirstNamed ==
  \A chain \in IdChains :
    (/\ IsSimpleChain(cg, chain)
     /\ find_functions_by_name(cg, cg.functions[chain[1]].name)[1].id = chain[1]) =>
      \A max_depth \in Len(chain)..MaxDepth :
        find_call_chains(<<cg>>, cg.functions[chain[1]].name, max_depth)
          = <<RecordsOf(cg, chain)>>

C13_Witness ==
  \E chain \in IdChains :
    /\ Len(chain) = 3
    /\ IsSimpleChain(cg, chain)
    /\ find_functions_by_name(cg, cg.functions[chain[1]].name)[1].id = chain[1]
    /\ find_call_chains(<<cg>>, cg.functions[chain[1]].name, 3) = <<RecordsOf(cg, chain)>>

(* There is a walk of n call edges from id. *)
RECURSIVE HasWalk(_, _, _)
HasWalk(callee_ids, id, n) ==
  \/ n = 0
  \/ /\ id \in DOMAIN callee_ids
     /\ \E i \in DOMAIN callee_ids[id] : HasWalk(callee_ids, callee_ids[id][i], n - 1)

StartsWith(chains, id) == \E i \in DOMAIN chains : chains[i] # << >> /\ chains[i][1] = id

(* C14: in both representations, when a function has a call path of more  *)
(* than max_depth functions, so that max_depth cuts the expansion off,     *)
(* get_call_chain still returns a chain beginning with that function.      *)
(* Fails: nothing is pushed for a path that reaches max_depth.             *)
C14_TruncatedChainsEmitted ==
  \A id \in AnalyzedIds : \A max_depth \in 1..MaxDepth :
    /\ (id \in DOMAIN cg.functions /\ HasWalk(CalleeIdsA(cg), id, max_depth))
         => StartsWith(get_call_chain(cg, id, max_depth), id)
    /\ (id \in DOMAIN pg.function_to_node /\ HasWalk(CalleeIdsB(pg), id, max_depth))
         => StartsWith(pet_get_call_chain(pg, id, max_depth), id)

(* All call edges of graph A, and those between stored functions. *)
AllPairs(g) ==
  {<<g.call_relations[i].caller_id, g.call_relations[i].callee_id>> : i \in DOMAIN g.call_relations}

StoredPairs(g) ==
  {e \in AllPairs(g) : e[1] \in DOMAIN g.functions /\ e[2] \in DOMAIN g.functions}

CycleIds(cycle) == {cycle[i].id : i \in DOMAIN cycle}

(* C15: on a graph whose call edges contain no directed cycle (self-loops  *)
(* included), find_circular_dependencies returns the empty list whatever   *)
(* the order of the roots, with parallel and dangling edges allowed.       *)
C15_NoCycleNoReport ==
  ~Cyclic(AllPairs(cg)) =>
    \A values \in ValuesOrders(cg) : find_circular_dependencies(<<cg>>, values) = << >>

(* Three functions and three edges without a cycle, one function called    *)
(* by the two others.                                                      *)
C15_Witness ==
  /\ ~Cyclic(AllPairs(cg))
  /\ Cardinality(DOMAIN cg.functions) = 3
  /\ Cardinality(StoredPairs(cg)) = 3
  /\ \A values \in ValuesOrders(cg) : find_circular_dependencies(<<cg>>, values) = << >>

(* The cyclic region of a: the stored functions on a cycle with a. *)
Region(g, a) ==
  {b \in DOMAIN g.functions : Reaches(StoredPairs(g), a, b) /\ Reaches(StoredPairs(g), b, a)}

(* Representation B holds the same functions and the same edges as A. *)
SameGraph ==
  /\ Len(pg.nodes) = Cardinality(DOMAIN cg.functions)
  /\ NodeIds(pg) = DOMAIN cg.functions
  /\ get_all_call_relations(pg) = cg.call_relations

(* C16: whatever the order of the roots, for every stored function that    *)
(* lies on a directed cycle of stored functions (a self-loop included) the *)
(* result holds a cycle made only of functions of its cyclic region; and   *)
(* when B holds the same functions and edges, the result is non-empty      *)
(* exactly when has_cycles is true.                                        *)
C16_CyclePerRegion ==
  \A values \in ValuesOrders(cg) :
    LET cycles == find_circular_dependencies(<<cg>>, values) IN
    /\ \A a \in DOMAIN cg.functions :
         Reaches(StoredPairs(cg), a, a)
           => \E i \in DOMAIN cycles : CycleIds(cycles[i]) \subseteq Region(cg, a)
    /\ SameGraph => ((cycles # << >>) <=> has_cycles(pg))

(* Two cyclic regions (a self-loop and a two-function cycle), B holding    *)
(* the same graph.                                                         *)
C16_Witness ==
  /\ SameGraph
  /\ has_cycles(pg)
  /\ \E a, b \in DOMAIN cg.functions :
       /\ Reaches(StoredPairs(cg), a, a)
       /\ Reaches(StoredPairs(cg), b, b)
       /\ Region(cg, a) # Region(cg, b)
       /\ Cardinality(Region(cg, b)) = 2
  /\ \A values \in ValuesOrders(cg) : Len(find_circular_dependencies(<<cg>>, values)) >= 2

IsTriangle(g) ==
  /\ Cardinality(DOMAIN g.functions) = 3
  /\ Cardinality(AllPairs(g)) = 3
  /\ Len(g.call_relations) = 3
  /\ \A a \in DOMAIN g.functions :
       /\ <<a, a>> \notin AllPairs(g)
       /\ Region(g, a) = DOMAIN g.functions

Rotations(s) ==
  {[i \in DOMAIN s |-> s[((i + k - 1) % Len(s)) + 1]] : k \in 0..(Len(s) - 1)}

Front(s) == SubSeq(s, 1, Len(s) - 1)

Distinct(s) == \A i, j \in DOMAIN s : s[i].id = s[j].id => i = j

(* C17 as claimed: every emitted cycle lists each of its functions once,  *)
(* and on the graph A->B, B->C, C->A the result holds a rotation of        *)
(* [A,B,C].                                                                *)
C17_CycleListsEachOnce ==
  \A values \in ValuesOrders(cg) :
    LET cycles == find_circular_dependencies(<<cg>>, values) IN
    /\ \A i \in DOMAIN cycles : Distinct(cycles[i])
    /\ IsTriangle(cg) =>
         \E i \in DOMAIN cycles : \E o \in Orders(DOMAIN cg.functions) :
           /\ StoredPairs(cg) = {<<o[1], o[2]>>, <<o[2], o[3]>>, <<o[3], o[1]>>}
           /\ cycles[i] \in Rotations(RecordsOf(cg, o))

(* C17 as amended: every emitted cycle is a path of stored functions, each *)
(* listed once and each calling the next, followed by its first function   *)
(* again, which the last one calls; on the graph A->B, B->C, C->A the      *)
(* result holds a rotation of [A,B,C] followed by its first function.      *)
C17_CycleIsClosedPath ==
  \A values \in ValuesOrders(cg) :
    LET cycles == find_circular_dependencies(<<cg>>, values) IN
    /\ \A i \in DOMAIN cycles :
         LET c == cycles[i] IN
         /\ Len(c) >= 2
         /\ c[Len(c)] = c[1]
         /\ Distinct(Front(c))
         /\ \A k \in DOMAIN c : c[k].id \in DOMAIN cg.functions /\ c[k] = cg.functions[c[k].id]
         /\ \A k \in 1..(Len(c) - 1) : <<c[k].id, c[k + 1].id>> \in StoredPairs(cg)
    /\ IsTriangle(cg) =>
         \E i \in DOMAIN cycles : \E o \in Orders(DOMAIN cg.functions) :
           /\ StoredPairs(cg) = {<<o[1], o[2]>>, <<o[2], o[3]>>, <<o[3], o[1]>>}
           /\ Front(cycles[i]) \in Rotations(RecordsOf(cg, o))
           /\ Len(cycles[i]) = 4

C17_Witness ==
  /\ IsTriangle(cg)
  /\ \A values \in ValuesOrders(cg) : Len(find_circular_dependencies(<<cg>>, values)) = 1

InDegree(g, id) ==
  Cardinality({i \in DOMAIN g.call_relations : g.call_relations[i].callee_id = id})

OutDegree(g, id) ==
  Cardinality({i \in DOMAIN g.call_relations : g.call_relations[i].caller_id = id})

StoredRecords(g) == {g.functions[id] : id \in DOMAIN g.functions}

NoRepeat(s) == \A i, j \in DOMAIN s : s[i] = s[j] => i = j

(* C18: find_leaf_functions returns exactly the functions that no edge has *)
(* as callee and find_root_functions exactly those that no edge has as     *)
(* caller, each once; without edges both return every function; on the     *)
(* chain A->B->C the roots are [C] and the leaves are [A].                 *)
C18_LeavesAndRoots ==
  \A values \in ValuesOrders(cg) :
    LET leaves == find_leaf_functions(<<cg>>, values)
        roots == find_root_functions(<<cg>>, values)
    IN /\ NoRepeat(leaves) /\ NoRepeat(roots)
       /\ Range(leaves) = {f \in StoredRecords(cg) : InDegree(cg, f.id) = 0}
       /\ Range(roots) = {f \in StoredRecords(cg) : OutDegree(cg, f.id) = 0}
       /\ cg.call_relations = << >> =>
            /\ Range(leaves) = StoredRecords(cg)
            /\ Range(roots) = StoredRecords(cg)
            /\ Range(leaves) \cap Range(roots) = StoredRecords(cg)
       /\ \A chain \in IdChains :
            (Len(chain) = 3 /\ IsSimpleChain(cg, chain)) =>
              /\ roots = <<cg.functions[chain[3]]>>
              /\ leaves = <<cg.functions[chain[1]]>>

C18_Witness ==
  \E chain \in IdChains :
    /\ Len(chain) = 3
    /\ IsSimpleChain(cg, chain)
    /\ \A values \in ValuesOrders(cg) :
         /\ find_leaf_functions(<<cg>>, values) = <<cg.functions[chain[1]]>>
         /\ find_root_functions(<<cg>>, values) = <<cg.functions[chain[3]]>>

(* The stored functions that call (are called by) a stored function whose  *)
(* record is named name. *)
CallersOfName(g, name) ==
  {g.functions[e[1]] : e \in {p \in StoredPairs(g) : g.functions[p[2]].name = name}}

CalleesOfName(g, name) ==
  {g.functions[e[2]] : e \in {p \in StoredPairs(g) : g.functions[p[1]].name = name}}

(* C19: the functions find_callers(name) returns are exactly the stored    *)
(* functions with an edge to a function whose record is named name;        *)
(* find_callees(name) mirrors it; both return nothing for a name that no   *)
(* function has.                                                           *)
C19_CallersOfName ==
  \A name \in Names :
    /\ Range(find_callers(<<cg>>, name)) = CallersOfName(cg, name)
    /\ Range(find_callees(<<cg>>, name)) = CalleesOfName(cg, name)
    /\ RecordsNamed(cg, name) = {} =>
         /\ find_callers(<<cg>>, name) = << >>
         /\ find_callees(<<cg>>, name) = << >>

(* The same, on graphs in which no id was inserted twice. *)
C19_CallersOfNameUniqueIds ==
  cg.stats.total_functions = Cardinality(DOMAIN cg.functions) => C19_CallersOfName

Limits == 0..(MaxNodes + 1)

(* C20: find_most_complex_functions(limit) returns min(limit, number of    *)
(* functions) entries, each a distinct function with its in-degree plus    *)
(* out-degree over the edge list, larger scores first, and no function     *)
(* left out scores more than one returned.                                 *)
C20_MostComplex ==
  \A values \in ValuesOrders(cg) : \A limit \in Limits :
    LET result == find_most_complex_functions(<<cg>>, values, limit)
        n == Cardinality(DOMAIN cg.functions)
        returned == {result[i][1] : i \in DOMAIN result}
    IN /\ Len(result) = IF limit < n THEN limit ELSE n
       /\ Cardinality(returned) = Len(result)
       /\ returned \subseteq StoredRecords(cg)
       /\ \A i \in DOMAIN result :
            result[i][2] = InDegree(cg, result[i][1].id) + OutDegree(cg, result[i][1].id)
       /\ \A i, j \in DOMAIN result : i < j => result[i][2] >= result[j][2]
       /\ \A f \in StoredRecords(cg) \ returned : \A i \in DOMAIN result :
            InDegree(cg, f.id) + OutDegree(cg, f.id) <= result[i][2]

(* Three functions with three different scores, the first of the iteration *)
(* not the most complex one.                                               *)
C20_Witness ==
  /\ Cardinality(DOMAIN cg.functions) = 3
  /\ \A a, b \in DOMAIN cg.functions :
       a # b => InDegree(cg, a) + OutDegree(cg, a) # InDegree(cg, b) + OutDegree(cg, b)
  /\ \A values \in ValuesOrders(cg) :
       Len(find_most_complex_functions(<<cg>>, values, 2)) = 2

(* ---- storage, equivalence and frame properties (Spec) ---- *)
(* C21: a load of a missing file returns Err with "Failed to read file", a *)
(* load of content that does not decode returns Err with "Failed to        *)
(* deserialize"; in both cases no graph is produced and the graphs at hand *)
(* are as they were.                                                       *)
C21_LoadFailureIsErr ==
  [][\A source \in Sources : \A content \in Contents :
       Load(source, content) =>
         /\ (source # "json" /\ content = "missing")
              => (last' = "Failed to read file" /\ pg' = pg /\ cg' = cg)
         /\ content = "malformed"
              => (last' = "Failed to deserialize" /\ pg' = pg /\ cg' = cg)]_vars

C21_Witness ==
  /\ last = "Failed to deserialize"
  /\ Len(pg.nodes) >= 1
  /\ Len(pg.edges) >= 1

EmptyDocument(frame) == [frame |-> frame, nodes |-> << >>, edges |-> << >>]

IsEmptyGraph(g) == g.nodes = << >> /\ g.edges = << >>

(* C22 as claimed: on a graph without functions and edges no export fails: *)
(* the JSON and binary encoders and the GraphML and GEXF exporters         *)
(* succeed, whatever the path they are given.                              *)
C22_EmptyExportNeverFails ==
  IsEmptyGraph(pg) =>
    \A writable \in BOOLEAN :
      /\ export_to_graphml(pg, writable).ok
      /\ export_to_gexf(pg, writable).ok
      /\ save_to_file(pg, writable).ok
      /\ save_to_binary(pg, writable).ok
      /\ save_to_json(pg).ok

(* C22 as amended: on a graph without functions and edges the exports that *)
(* write a file fail only when the write fails, with Err "Failed to write  *)
(* ..."; otherwise each export gives its fixed frame with no node entry    *)
(* and no edge entry, and decoding the JSON or binary output gives a graph *)
(* without functions and edges; to_mermaid, to_dot and to_json of an empty *)
(* CodeGraph always give the empty frame.                                  *)
C22_EmptyExportFailsOnlyOnWrite ==
  /\ IsEmptyGraph(pg) =>
       /\ export_to_graphml(pg, TRUE) = [ok |-> TRUE, document |-> EmptyDocument("graphml")]
       /\ export_to_gexf(pg, TRUE) = [ok |-> TRUE, document |-> EmptyDocument("gexf")]
       /\ export_to_graphml(pg, FALSE) = [ok |-> FALSE, message |-> "Failed to write GraphML file"]
       /\ export_to_gexf(pg, FALSE) = [ok |-> FALSE, message |-> "Failed to write GEXF file"]
       /\ save_to_json(pg).ok
       /\ save_to_file(pg, TRUE).ok
       /\ save_to_binary(pg, TRUE).ok
       /\ ~save_to_file(pg, FALSE).ok
       /\ ~save_to_binary(pg, FALSE).ok
       /\ save_to_json(pg).document.functions = << >>
       /\ save_to_json(pg).document.call_relations = << >>
       /\ IsEmptyGraph(load("json", "encoded", save_to_json(pg).document).graph)
       /\ IsEmptyGraph(load("binary", "encoded", save_to_binary(pg, TRUE).document).graph)
  /\ (cg.functions = EmptyMap /\ cg.call_relations = << >>) =>
       \A values \in ValuesOrders(cg) :
         /\ to_mermaid(cg, values) = EmptyDocument("graph TD")
         /\ to_dot(cg, values) = EmptyDocument("digraph CodeGraph")
         /\ to_json(cg).ok
         /\ to_json(cg).document.functions = EmptyMap
         /\ to_json(cg).document.call_relations = << >>

(* An empty graph that came out of a decode. *)
C22_Witness ==
  /\ last = "load"
  /\ IsEmptyGraph(pg)
  /\ cg.functions = EmptyMap
  /\ cg.call_relations = << >>

(* ---- equivalence of the representations (SpecAnalyze) ---- *)
CountIn(s, x) == Cardinality({i \in DOMAIN s : s[i] = x})

SameMultiset(s, t) ==
  /\ Len(s) = Len(t)
  /\ \A x \in Range(s) \cup Range(t) : CountIn(s, x) = CountIn(t, x)

RelationsOf(pairs) == [i \in DOMAIN pairs |-> pairs[i].relation]

(* Every edge was inserted after both its endpoints: B rejected none. *)
AllEdgesAccepted == Len(pg.edges) = Len(cg.call_relations)

(* C23: after the same insert-function and insert-call-edge operations,    *)
(* every edge inserted after its endpoints, get_callers(id) returns the    *)
(* same multiset of call edges in A and in B for every id, and so does     *)
(* get_callees(id).  Fails once an id is inserted a second time.           *)
C23_SameCallersAndCallees ==
  AllEdgesAccepted =>
    \A id \in AnalyzedIds :
      /\ SameMultiset(get_callers(cg, id), RelationsOf(pet_get_callers(pg, id)))
      /\ SameMultiset(get_callees(cg, id), RelationsOf(pet_get_callees(pg, id)))

(* The same, on graphs in which no id was inserted twice. *)
C23_SameCallersAndCalleesUniqueIds ==
  cg.stats.total_functions = Cardinality(DOMAIN cg.functions) => C23_SameCallersAndCallees

(* Every list of the old index is a prefix of the list under the same key  *)
(* of the new index. *)
IndexGrows(old, new) ==
  \A k \in DOMAIN old : k \in DOMAIN new /\ IsPrefix(old[k], new[k])

(* C24: the edge list and the index lists are append-only in both          *)
(* representations: every operation leaves the previous edge list as a     *)
(* prefix of the new one and every previous name-index and file-index list *)
(* as a prefix of the new list of its key.                                 *)
C24_AppendOnly ==
  [][/\ IsPrefix(cg.call_relations, cg'.call_relations)
     /\ IsPrefix(get_all_call_relations(pg), get_all_call_relations(pg'))
     /\ IndexGrows(cg.function_names, cg'.function_names)
     /\ IndexGrows(cg.file_functions, cg'.file_functions)
     /\ IndexGrows(pg.function_names, pg'.function_names)
     /\ IndexGrows(pg.file_functions, pg'.file_functions)]_vars

(* Two different ids under one name and one file, and two different edges. *)
C24_Witness ==
  /\ \E k \in DOMAIN cg.function_names :
       Len(cg.function_names[k]) = 2 /\ cg.function_names[k][1] # cg.function_names[k][2]
  /\ \E k \in DOMAIN pg.file_functions :
       Len(pg.file_functions[k]) = 2 /\ pg.file_functions[k][1] # pg.file_functions[k][2]
  /\ Len(pg.edges) = 2
  /\ pg.edges[1] # pg.edges[2]
  /\ Len(cg.call_relations) = 2

(* ---- more builder properties (SpecBuild) ---- *)
(* C25: the graph a build returns has refreshed stats, in both             *)
(* representations: total_files is the number of distinct file paths of    *)
(* the inserted functions (the keys of the file index) and total_languages *)
(* the number of their distinct language tags (the keys of the histogram). *)
C25_RefreshedStats ==
  BuildReturned =>
    /\ cg.stats.total_files = Cardinality({cg.functions[id].file_path : id \in DOMAIN cg.functions})
    /\ cg.stats.total_files = Cardinality(DOMAIN cg.file_functions)
    /\ cg.stats.total_languages = Cardinality({cg.functions[id].language : id \in DOMAIN cg.functions})
    /\ cg.stats.total_languages = Cardinality(DOMAIN cg.stats.languages)
    /\ pg.stats.total_files = Cardinality({pg.nodes[i].file_path : i \in DOMAIN pg.nodes})
    /\ pg.stats.total_files = Cardinality(DOMAIN pg.file_functions)
    /\ pg.stats.total_languages = Cardinality({pg.nodes[i].language : i \in DOMAIN pg.nodes})
    /\ pg.stats.total_languages = Cardinality(DOMAIN pg.stats.languages)

(* A returned graph with functions of two files in two languages. *)
C25_Witness ==
  /\ BuildReturned
  /\ cg.stats.total_files = 2
  /\ cg.stats.total_languages = 2
  /\ pg.stats.total_files = 2
  /\ pg.stats.total_languages = 2
  /\ cg.stats.total_functions = 3

(* The function ids of the history of expansions, and the history of        *)
(* find_circular_dependencies over all roots.                               *)
ExpandedIds(log) == [i \in DOMAIN log |-> log[i].id]

ExpandedBy(callee_ids, function_id, max_depth) ==
  _get_call_chain_recursive(callee_ids, function_id, {}, 0, max_depth, << >>).expanded

ExploredBy(code_graph, values) ==
  VisitRoots(code_graph, values, 1,
             [visited |-> {}, rec_stack |-> {}, cycle |-> << >>, cycles |-> << >>,
              explored |-> << >>]).explored

IsSelfLoop(g, i) == g.call_relations[i].caller_id = g.call_relations[i].callee_id

IsParallel(g, i, j) ==
  /\ i # j
  /\ g.call_relations[i].caller_id = g.call_relations[j].caller_id
  /\ g.call_relations[i].callee_id = g.call_relations[j].callee_id

(* C26: on every graph, cycles, self-loops and parallel edges included,     *)
(* get_call_chain(id, max_depth) returns after expanding each function at   *)
(* most once and none at a depth of max_depth or more, in both              *)
(* representations, and find_circular_dependencies returns after exploring  *)
(* each function at most once over all roots, whatever their order.         *)
C26_BoundedExpansion ==
  /\ \A callee_ids \in {CalleeIdsA(cg), CalleeIdsB(pg)} :
       \A id \in AnalyzedIds : \A max_depth \in 0..MaxDepth :
         LET log == ExpandedBy(callee_ids, id, max_depth) IN
           /\ NoRepeat(ExpandedIds(log))
           /\ \A i \in DOMAIN log : log[i].depth < max_depth
  /\ \A values \in ValuesOrders(cg) :
       LET explored == ExploredBy(cg, values) IN
         /\ NoRepeat(explored)
         /\ Range(explored) \subseteq DOMAIN cg.functions

(* A self-loop beside two parallel edges: the expansion from the caller of  *)
(* the parallel edges meets the callee three times and expands it once.     *)
C26_Witness ==
  \E i, j, k \in DOMAIN cg.call_relations :
    /\ IsParallel(cg, i, j)
    /\ IsSelfLoop(cg, k)
    /\ ~IsSelfLoop(cg, i)
    /\ cg.call_relations[k].caller_id = cg.call_relations[i].callee_id
    /\ Len(ExpandedBy(CalleeIdsA(cg), cg.call_relations[i].caller_id, MaxDepth)) = 2
    /\ Len(ExpandedBy(CalleeIdsB(pg), cg.call_relations[i].caller_id, MaxDepth)) = 2
    /\ \E values \in ValuesOrders(cg) : Len(ExploredBy(cg, values)) = 2

(* The <<caller, callee>> pairs of the edges held by representation B. *)
PetPairs(g) == {<<g.edges[i].weight.caller_id, g.edges[i].weight.callee_id>> : i \in DOMAIN g.edges}

(* chain starts with id, has 1..max_depth ids, none twice, and moves along  *)
(* the pairs of E.                                                          *)
IsPathFrom(chain, id, max_depth, E) ==
  /\ Len(chain) \in 1..max_depth
  /\ chain[1] = id
  /\ NoRepeat(chain)
  /\ \A k \in 1..(Len(chain) - 1) : <<chain[k], chain[k + 1]>> \in E

(* C27: every chain returned by get_call_chain(id, max_depth), in either    *)
(* representation, starts with id, has between 1 and max_depth elements,    *)
(* holds no id twice, and each consecutive pair of it is the caller and the *)
(* callee of a call edge of the graph.                                      *)
C27_ChainsArePaths ==
  \A id \in AnalyzedIds : \A max_depth \in 0..MaxDepth :
    /\ LET chains == get_call_chain(cg, id, max_depth) IN
         \A i \in DOMAIN chains : IsPathFrom(chains[i], id, max_depth, AllPairs(cg))
    /\ LET chains == pet_get_call_chain(pg, id, max_depth) IN
         \A i \in DOMAIN chains : IsPathFrom(chains[i], id, max_depth, PetPairs(pg))

(* Both representations return a chain of three functions on a graph of     *)
(* three edges.                                                             *)
C27_Witness ==
  \E id \in AnalyzedIds : \E max_depth \in 3..MaxDepth :
    /\ \E i \in DOMAIN get_call_chain(cg, id, max_depth) :
         Len(get_call_chain(cg, id, max_depth)[i]) = 3
    /\ \E i \in DOMAIN pet_get_call_chain(pg, id, max_depth) :
         Len(pet_get_call_chain(pg, id, max_depth)[i]) = 3
    /\ Len(cg.call_relations) = 3

(* C28: every list returned by find_circular_dependencies, whatever the     *)
(* order of the roots, denotes a directed cycle of the graph: each of its   *)
(* functions has a call edge to the one listed after it, and the last one   *)
(* either is the first one again or has a call edge to the first one.       *)
C28_ReportedCyclesAreCycles ==
  \A values \in ValuesOrders(cg) :
    LET cycles == find_circular_dependencies(<<cg>>, values) IN
    \A i \in DOMAIN cycles :
      LET c == cycles[i]
          n == Len(cycles[i])
      IN /\ n >= 1
         /\ \A k \in 1..(n - 1) : <<c[k].id, c[k + 1].id>> \in AllPairs(cg)
         /\ c[n] = c[1] \/ <<c[n].id, c[1].id>> \in AllPairs(cg)
         /\ Reaches(AllPairs(cg), c[1].id, c[1].id)

(* A cycle of two functions is reported although the traversal entered it   *)
(* from a third function outside it.                                        *)
C28_Witness ==
  \E values \in ValuesOrders(cg) :
    /\ Len(values) = 3
    /\ <<values[1].id, values[2].id>> \in AllPairs(cg)
    /\ ~Reaches(AllPairs(cg), values[1].id, values[1].id)
    /\ \E i \in DOMAIN find_circular_dependencies(<<cg>>, values) :
         CycleIds(find_circular_dependencies(<<cg>>, values)[i]) = {values[2].id, values[3].id}

(* C29: after the same insert-function and insert-call-edge operations,     *)
(* every edge inserted after its endpoints, get_call_chain(id, max_depth)   *)
(* returns the same set of chains in A and in B for every id and every      *)
(* max_depth, also when several callees of a function share a descendant.   *)
(* Fails: A expands the callees oldest edge first and B newest edge first,  *)
(* and the shared visited set gives the common descendant to the callee     *)
(* that is expanded first.                                                  *)
C29_SameChains ==
  AllEdgesAccepted =>
    \A id \in AnalyzedIds : \A max_depth \in 0..MaxDepth :
      Range(get_call_chain(cg, id, max_depth)) = Range(pet_get_call_chain(pg, id, max_depth))

(* The parameter list the claim describes: the declared parameters in       *)
(* declaration order, separated by ", ", and nothing else.                  *)
DeclaredParameters(s) ==
  Join([i \in DOMAIN s.args |-> _build_param_signature(s.args[i], s.language)], ", ")

DistinctParameterNames(s) ==
  \A i, j \in DOMAIN s.args : s.args[i].name = s.args[j].name => i = j

RustExample ==
  [symbol_type |-> "FunctionDeclaration", is_declaration |-> TRUE, language |-> "Rust",
   name |-> <<"t", "e", "s", "t", "_", "f", "u", "n", "c", "t", "i", "o", "n">>,
   namespace |-> "test", template_types |-> << >>,
   args |-> <<[name |-> <<"x">>, type_ |-> <<Named("i32")>>],
              [name |-> <<"y">>, type_ |-> <<Named("String")>>]>>,
   return_type |-> <<Named("bool")>>]

PythonExample ==
  [symbol_type |-> "FunctionDeclaration", is_declaration |-> TRUE, language |-> "Python",
   name |-> <<"g", "r", "e", "e", "t">>,
   namespace |-> "test", template_types |-> << >>,
   args |-> <<[name |-> <<"n", "a", "m", "e">>, type_ |-> <<Named("str")>>],
              [name |-> <<"a", "g", "e">>, type_ |-> <<Named("int")>>]>>,
   return_type |-> <<Named("str")>>]

(* C30: the signature extracted for a function declaration with a non-empty *)
(* name and pairwise distinct parameter names is the language keyword, the  *)
(* name, the template parameters if any, "(", the declared parameters       *)
(* separated by ", " and no other, ")", the return type suffix, and ":" for *)
(* Python; the Rust and the Python declaration of the unit tests give       *)
(* "fn test_function(x: i32, y: String) -> bool" and                        *)
(* "def greet(name: str, age: int) -> str:".                                *)
(* Fails: a namespace prefix is put in front, and for a non-empty parameter *)
(* list "..." (Rust), "*args, **kwargs" (Python) or "...args" is added.     *)
C30_SignatureOfDeclaration ==
  (signature.done /\ symbol.symbol_type = "FunctionDeclaration" /\ symbol.is_declaration
     /\ symbol.name # << >> /\ DistinctParameterNames(symbol)) =>
    /\ signature.result =
         <<FunctionKeyword(symbol.language)
             \o Concat(symbol.name)
             \o _build_template_params(symbol.template_types)
             \o "(" \o DeclaredParameters(symbol) \o ")"
             \o _build_return_type(symbol.return_type, symbol.language)
             \o (IF symbol.language = "Python" THEN ":" ELSE "")>>
    /\ symbol = RustExample =>
         signature.result = <<"fn test_function(x: i32, y: String) -> bool">>
    /\ symbol = PythonExample =>
         signature.result = <<"def greet(name: str, age: int) -> str:">>

====
